---- MODULE Spec2Model ----
(***************************************************************************)
(* Model of Cache<T> in src/test-files/lib.rs: a HashMap<String, T> with a *)
(* capacity and an eviction of "the first key the iteration yields" when a *)
(* new key is inserted into a map whose length is at or above capacity.    *)
(***************************************************************************)
EXTENDS Integers, FiniteSets

\* ---------------------------------------------------------------- bounds
MaxCapacity == 2
MaxKeys == 3
MaxValue == 2

KeyNames == <<"a", "b", "c", "d", "e", "f">>
Keys == {KeyNames[i] : i \in 1..MaxKeys}
Values == 1..MaxValue
Capacities == 0..MaxCapacity

\* ---------------------------------------------------------------- Option<T>
None == <<"None">>
Some(v) == <<"Some", v>>
Unit == <<"Unit">>

\* ---------------------------------------------------------------- state
VARIABLES
    data,         \* Cache.data: the HashMap, a function from the stored keys
    capacity,     \* Cache.capacity
    call,         \* the last public call: <<"new", c>>, <<"insert", k, v>>,
                  \* <<"get", k>>, <<"clear">>
    ret,          \* what the last call returned
    pre,          \* Cache.data as it was when the last call was entered
    fresh,        \* keys inserted while absent, since new() or the last clear()
    evictedKeys   \* keys removed by the eviction branch, since new() or the last clear()

vars == <<data, capacity, call, ret, pre, fresh, evictedKeys>>

\* ---------------------------------------------------------------- HashMap
EmptyMap == [k \in {} |-> 0]

Len(d) == Cardinality(DOMAIN d)

ContainsKey(d, k) == k \in DOMAIN d

\* HashMap::get, also the "previous value" HashMap::insert returns
Lookup(d, k) == IF k \in DOMAIN d THEN Some(d[k]) ELSE None

Remove(d, k) == [x \in DOMAIN d \ {k} |-> d[x]]

HashMapInsertKeepsOld(d, k, v) == [x \in DOMAIN d \cup {k} |-> IF x \in DOMAIN d THEN d[x] ELSE v]
HashMapInsert(d, k, v) == [x \in DOMAIN d \cup {k} |-> IF x = k THEN v ELSE d[x]]

\* self.data.keys().next(): the iteration order of a HashMap is unspecified,
\* so the first key is any stored key; None on an empty map.
KeysNext(d) == IF DOMAIN d = {} THEN {None} ELSE {Some(k) : k \in DOMAIN d}

\* ---------------------------------------------------------------- Cache
ShouldEvictIgnoresPresence(d, cap, key) == Len(d) >= cap
ShouldEvictOffByOne(d, cap, key) == Len(d) + 1 >= cap /\ ~ContainsKey(d, key)
ShouldEvictStrict(d, cap, key) == Len(d) > cap /\ ~ContainsKey(d, key)
ShouldEvict(d, cap, key) == Len(d) >= cap /\ ~ContainsKey(d, key)

\* the outcomes of the eviction block of insert: the victim, if one is removed
EvictChoices(d, cap, key) ==
    IF ShouldEvict(d, cap, key) THEN KeysNext(d) ELSE {None}

AfterEvict(d, first) == IF first = None THEN d ELSE Remove(d, first[2])

InsertReturnsNone(d, key) == None
InsertReturn(d, key) == Lookup(d, key)

Init ==
    /\ capacity \in Capacities
    /\ data = EmptyMap
    /\ call = <<"new", capacity>>
    /\ ret = Unit
    /\ pre = EmptyMap
    /\ fresh = {}
    /\ evictedKeys = {}

Insert(key, value) ==
    \E first \in EvictChoices(data, capacity, key) :
        LET d1 == AfterEvict(data, first) IN
        /\ data' = HashMapInsert(d1, key, value)
        /\ ret' = InsertReturn(d1, key)
        /\ call' = <<"insert", key, value>>
        /\ pre' = data
        /\ fresh' = IF ContainsKey(data, key) THEN fresh ELSE fresh \cup {key}
        /\ evictedKeys' = IF first = None THEN evictedKeys ELSE evictedKeys \cup {first[2]}
        /\ UNCHANGED capacity

GetRemoves(key) ==
    /\ ret' = Lookup(data, key)
    /\ call' = <<"get", key>>
    /\ pre' = data
    /\ data' = Remove(data, key)
    /\ UNCHANGED <<capacity, fresh, evictedKeys>>
Get(key) ==
    /\ ret' = Lookup(data, key)
    /\ call' = <<"get", key>>
    /\ pre' = data
    /\ UNCHANGED <<data, capacity, fresh, evictedKeys>>

ClearResetsCapacity ==
    /\ data' = EmptyMap
    /\ capacity' = 0
    /\ ret' = Unit
    /\ call' = <<"clear">>
    /\ pre' = data
    /\ fresh' = {}
    /\ evictedKeys' = {}
Clear ==
    /\ data' = EmptyMap
    /\ ret' = Unit
    /\ call' = <<"clear">>
    /\ pre' = data
    /\ fresh' = {}
    /\ evictedKeys' = {}
    /\ UNCHANGED capacity

Next ==
    \/ \E key \in Keys, value \in Values : Insert(key, value)
    \/ \E key \in Keys : Get(key)
    \/ Clear

Spec == Init /\ [][Next]_vars

TypeOK ==
    /\ DOMAIN data \subseteq Keys
    /\ \A k \in DOMAIN data : data[k] \in Values
    /\ capacity \in Capacities
    /\ DOMAIN pre \subseteq Keys
    /\ fresh \subseteq Keys
    /\ evictedKeys \subseteq Keys

\* ================================================================ claims

\* C1: after every call the number of stored entries is at most capacity,
\* for every capacity new() accepts, 0 included.
C1_CountAtMostCapacity == Len(data) <= capacity

\* C2: an insert of an absent key into a map whose entry count equals
\* capacity removes exactly one previously stored entry, keeps every other
\* entry, leaves the count equal to capacity, and get(k) then returns v.
C2_FullInsertEvictsExactlyOne ==
    (call[1] = "insert" /\ Len(pre) = capacity /\ ~ContainsKey(pre, call[2])) =>
        /\ Cardinality(DOMAIN pre \ DOMAIN data) = 1
        /\ \A x \in DOMAIN pre \cap DOMAIN data : data[x] = pre[x]
        /\ Len(data) = capacity
        /\ ContainsKey(data, call[2]) /\ data[call[2]] = call[3]

\* C3: an insert of a key already present evicts nothing whatever the
\* capacity and fullness: same key set, same count, every other key keeps
\* its value, and get(k) afterwards returns v.
C3_OverwriteInPlace ==
    (call[1] = "insert" /\ ContainsKey(pre, call[2])) =>
        /\ DOMAIN data = DOMAIN pre
        /\ Len(data) = Len(pre)
        /\ \A x \in DOMAIN pre \ {call[2]} : data[x] = pre[x]
        /\ data[call[2]] = call[3]

C3_Witness ==
    /\ call[1] = "insert"
    /\ ContainsKey(pre, call[2]) /\ pre[call[2]] # call[3]
    /\ Len(pre) = capacity /\ Len(pre) >= 2

\* C4: an insert of an absent key into a map whose count is strictly below
\* capacity raises the count by exactly one and removes no entry: every
\* previously stored key is still present with its previous value.
C4_BelowCapacityNoEviction ==
    (call[1] = "insert" /\ Len(pre) < capacity /\ ~ContainsKey(pre, call[2])) =>
        /\ Len(data) = Len(pre) + 1
        /\ \A x \in DOMAIN pre : ContainsKey(data, x) /\ data[x] = pre[x]

C4_Witness ==
    /\ call[1] = "insert"
    /\ Len(pre) >= 1 /\ Len(pre) < capacity /\ ~ContainsKey(pre, call[2])
    /\ Len(data) = capacity

\* C5: insert returns the value k had immediately before the call when k was
\* present, and None when k was absent, also when the call evicted an entry.
C5_InsertReturnsPrevious ==
    call[1] = "insert" =>
        ret = IF call[2] \in DOMAIN pre THEN <<"Some", pre[call[2]]>> ELSE <<"None">>

C5_Witness ==
    /\ call[1] = "insert"
    /\ ~ContainsKey(pre, call[2])
    /\ Len(pre) = capacity /\ Len(pre) >= 1 /\ DOMAIN pre \ DOMAIN data # {}
    /\ ret = None

\* C6: a get(k) issued immediately after insert(k, v) returns v; the eviction
\* of insert never removes the key being inserted.
C6_GetAfterInsert ==
    /\ [](call[1] = "insert" => (ContainsKey(data, call[2]) /\ data[call[2]] = call[3]))
    /\ [][(call[1] = "insert" /\ call'[1] = "get" /\ call'[2] = call[2])
            => ret' = Some(call[3])]_vars

C6_Witness ==
    /\ call[1] = "insert"
    /\ ~ContainsKey(pre, call[2])
    /\ Len(pre) = capacity /\ Len(pre) >= 2
    /\ Cardinality(DOMAIN pre \ DOMAIN data) = 1
    /\ Lookup(data, call[2]) = Some(call[3])

\* C7: after clear() the count is 0 and get returns empty for every key;
\* capacity keeps the value given at construction, so after a clear (as
\* after new) the map takes capacity distinct new keys without any eviction.
C7_ClearEmptiesKeepsCapacity ==
    /\ [](call[1] = "clear" => (Len(data) = 0 /\ \A k \in Keys : Lookup(data, k) = None))
    /\ [][capacity' = capacity]_vars
    /\ [](Cardinality(fresh) <= capacity => evictedKeys = {})

C7_Witness ==
    /\ call[1] = "clear"
    /\ Len(pre) >= 1 /\ Len(pre) = capacity
    /\ Len(data) = 0

\* C8: on a map constructed with capacity 0 every insert attempt evicts
\* immediately: after new(0) and insert("a", 1) the entry count is 0.
C8_ZeroCapacityStaysEmpty ==
    (capacity = 0 /\ call[1] = "insert") => Len(data) = 0

\* C9: get(k) is read-only: it leaves the entries and the capacity unchanged,
\* returns the stored value when k is present and empty when absent, and the
\* outcomes open to the operations that follow are the same as without it.
C9_GetReadOnly ==
    /\ [](call[1] = "get" =>
            /\ data = pre
            /\ ret = IF call[2] \in DOMAIN pre THEN <<"Some", pre[call[2]]>> ELSE <<"None">>)
    /\ [][call'[1] = "get" =>
            /\ data' = data /\ capacity' = capacity
            /\ fresh' = fresh /\ evictedKeys' = evictedKeys
            /\ \A k \in Keys, v \in Values :
                 {<<HashMapInsert(AfterEvict(data', f), k, v), InsertReturn(AfterEvict(data', f), k)>> :
                      f \in EvictChoices(data', capacity', k)}
                 = {<<HashMapInsert(AfterEvict(data, f), k, v), InsertReturn(AfterEvict(data, f), k)>> :
                      f \in EvictChoices(data, capacity, k)}]_vars

C9_Witness ==
    /\ call[1] = "get" /\ ret # None
    /\ Len(pre) = capacity /\ Len(pre) >= 2
    /\ data = pre

\* C10: the entry count is at most max(capacity, 1) in every reachable state,
\* an insert never decreases the count, and a capacity-0 map holds exactly one
\* entry, the most recently inserted key, after any insert until the next clear.
C10_CountAtMostMaxCapacityOne ==
    /\ [](Len(data) <= IF capacity >= 1 THEN capacity ELSE 1)
    /\ [](call[1] = "insert" => Len(data) >= Len(pre))
    /\ []((capacity = 0 /\ call[1] = "insert") => DOMAIN data = {call[2]})
    /\ []((capacity = 0 /\ fresh # {}) => Len(data) = 1)

C10_Witness ==
    /\ capacity = 0 /\ call[1] = "insert"
    /\ Len(pre) = 1 /\ ~ContainsKey(pre, call[2])
    /\ DOMAIN data = {call[2]}
====
